---- MODULE Spec2Model ----
(***************************************************************************)
(* Model of gpx_analyzer.py: the GPXAnalyzer pipeline                      *)
(*   load_gpx_file -> extract_track_data -> calculate_metrics ->           *)
(*   summary prints -> visualize_track_on_map -> plot_elevation_profile    *)
(* together with the __main__ entry.  Floating point values are modelled   *)
(* by integers; a missing value (Python None / pandas NaN) is the empty    *)
(* tuple and a present value v is the one-element tuple <<v>>.             *)
(***************************************************************************)
EXTENDS Integers, Sequences, FiniteSets, TLC

\* ---------------------------------------------------------------- bounds
\* points of a track handed to calculate_metrics
MaxPoints == 3
\* points, tracks and segments per track of a file run through the whole pipeline
MaxFilePoints == 1
MaxTracks == 1
MaxSegs == 1
\* the grid of coordinates and elevations
MaxLat == 1
MaxLon == 0
MaxEle == 1

\* ------------------------------------------------------- optional values
NaN == <<>>

Some(v) == <<v>>

IsNa(c) == c = NaN

Val(c) == c[1]

\* ------------------------------------------------------ the input domain
Elevations == {NaN} \cup {Some(e) : e \in 0..MaxEle}

TrackPoints == [latitude : 0..MaxLat, longitude : 0..MaxLon, elevation : Elevations, time : {NaN}]

RECURSIVE SumSeq(_)
SumSeq(s) == IF s = <<>> THEN 0 ELSE SumSeq(SubSeq(s, 1, Len(s) - 1)) + s[Len(s)]

SeqsUpTo(S, n) == UNION {[1..k -> S] : k \in 0..n}

\* a file layout: for every track, the number of points of each of its segments
TrackShapes == SeqsUpTo(0..MaxFilePoints, MaxSegs)

ShapeTotal(shape) == SumSeq([t \in 1..Len(shape) |-> SumSeq(shape[t])])

FileShapes == {sh \in SeqsUpTo(TrackShapes, MaxTracks) : ShapeTotal(sh) <= MaxFilePoints}

\* number of points of the file that precede segment s of track t
Offset(shape, t, s) ==
    SumSeq([u \in 1..(t - 1) |-> SumSeq(shape[u])]) + SumSeq(SubSeq(shape[t], 1, s - 1))

\* the parsed document: tracks -> segments -> points, filled in file order
BuildTracks(shape, pts) ==
    [t \in 1..Len(shape) |->
        [s \in 1..Len(shape[t]) |->
            [k \in 1..shape[t][s] |-> pts[Offset(shape, t, s) + k]]]]

GpxDocuments ==
    UNION {{BuildTracks(sh, pts) : pts \in [1..ShapeTotal(sh) -> TrackPoints]} : sh \in FileShapes}

Files ==
    {[kind |-> "missing", tracks |-> <<>>], [kind |-> "malformed", tracks |-> <<>>]}
        \cup {[kind |-> "gpx", tracks |-> d] : d \in GpxDocuments}

\* ------------------------------------------------------------------ state
VARIABLES
    entry,          \* "main": the __main__ block; "direct": run_analysis called directly
    file,           \* what is at file_path on disk
    pc,             \* position in the pipeline
    gpx,            \* self.gpx
    track_data,     \* self.track_data: NaN (None) or Some(sequence of rows)
    distances,      \* the local list `distances` of calculate_metrics
    total_distance, \* self.total_distance
    max_elevation,  \* self.max_elevation
    min_elevation,  \* self.min_elevation
    elevation_gain, \* self.elevation_gain
    attrs,          \* which of the attributes set outside __init__ exist
    stdout,         \* the lines printed so far
    raised,         \* the uncaught exception, "none" while there is none
    exit_status,    \* NaN while running, then Some(status)
    map_saved,      \* track_map.html has been written
    browser_opened, \* webbrowser.open has been called
    chart_shown     \* plt.show has displayed the chart

vars == <<entry, file, pc, gpx, track_data, distances, total_distance, max_elevation,
          min_elevation, elevation_gain, attrs, stdout, raised, exit_status,
          map_saved, browser_opened, chart_shown>>

analyzer == <<gpx, track_data, distances, total_distance, max_elevation, min_elevation,
              elevation_gain, attrs>>

outputs == <<map_saved, browser_opened, chart_shown>>

Init ==
    /\ entry \in {"main", "direct"}
    /\ file \in Files
    /\ pc = IF entry = "main" THEN "main" ELSE "load"
    /\ gpx = NaN
    /\ track_data = NaN
    /\ distances = <<>>
    /\ total_distance = 0
    /\ max_elevation = NaN
    /\ min_elevation = NaN
    /\ elevation_gain = NaN
    /\ attrs = {}
    /\ stdout = <<>>
    /\ raised = "none"
    /\ exit_status = NaN
    /\ map_saved = FALSE
    /\ browser_opened = FALSE
    /\ chart_shown = FALSE

\* print(...): one line, a label and the value formatted into it
print(label, value) == stdout' = Append(stdout, <<label, value>>)

\* exit that reports success whatever status it is given
exit_zero(status) == pc' = "exited" /\ exit_status' = Some(0) /\ raised' = "none"

\* exit(1): SystemExit ends the run with the given status
exit(status) == pc' = "exited" /\ exit_status' = Some(status) /\ raised' = "none"

\* an exception nobody catches: traceback, interpreter exit status 1
Uncaught(exc) == pc' = "aborted" /\ exit_status' = Some(1) /\ raised' = exc

\* ------------------------------------------------------------- __main__
main ==
    /\ pc = "main"
    /\ IF file.kind = "missing"
       THEN /\ print("file_does_not_exist", NaN)
            /\ exit(1)
       ELSE /\ pc' = "load"
            /\ UNCHANGED <<stdout, exit_status, raised>>
    /\ UNCHANGED <<entry, file, analyzer, outputs>>

\* -------------------------------------------------------- load_gpx_file
load_gpx_file ==
    /\ pc = "load"
    /\ CASE file.kind = "missing" ->
              /\ print("file_not_found", NaN)
              /\ exit(1)
              /\ UNCHANGED gpx
         [] file.kind = "malformed" ->
              /\ print("load_error", NaN)
              /\ exit(1)
              /\ UNCHANGED gpx
         [] file.kind = "gpx" /\ file.tracks = <<>> ->
              /\ gpx' = Some(file.tracks)
              /\ print("load_error", NaN)
              /\ exit(1)
         [] OTHER ->
              /\ gpx' = Some(file.tracks)
              /\ pc' = "extract"
              /\ UNCHANGED <<stdout, exit_status, raised>>
    /\ UNCHANGED <<entry, file, track_data, distances, total_distance, max_elevation,
                   min_elevation, elevation_gain, attrs, outputs>>

\* --------------------------------------------------- extract_track_data
RECURSIVE Concat(_)
Concat(ss) == IF ss = <<>> THEN <<>> ELSE Concat(SubSeq(ss, 1, Len(ss) - 1)) \o ss[Len(ss)]

\* the three nested loops: every point of every segment of every track, in order
points(tracks) == Concat([t \in 1..Len(tracks) |-> Concat(tracks[t])])

DataFrame(pts) == pts

\* an emptiness test that never fires
empty_never(df) == FALSE

empty(df) == Len(df) = 0

extract_track_data ==
    /\ pc = "extract"
    /\ track_data' = Some(DataFrame(points(Val(gpx))))
    /\ IF empty(DataFrame(points(Val(gpx))))
       THEN Uncaught("ValueError")
       ELSE pc' = "calc" /\ UNCHANGED <<exit_status, raised>>
    /\ UNCHANGED <<entry, file, gpx, distances, total_distance, max_elevation,
                   min_elevation, elevation_gain, attrs, stdout, outputs>>

\* ---------------------------------------------------- calculate_metrics
Column(df, name) == [i \in 1..Len(df) |-> df[i][name]]

zip(a, b) == [i \in 1..Len(a) |-> <<a[i], b[i]>>]

Abs(x) == IF x < 0 THEN -x ELSE x

\* geodesic(a, b).meters on the integer grid: a distance of (lat, lon) only,
\* non-negative, symmetric, zero exactly between equal coordinates
geodesic(a, b) == Abs(a[1] - b[1]) + Abs(a[2] - b[2])

\* [geodesic(coords[i], coords[i+1]).meters for i in range(len(coords)-1)]
StepDistances(coords) == [i \in 1..(Len(coords) - 1) |-> geodesic(coords[i], coords[i + 1])]

\* a running sum that leaves the current element out
cumsum_exclusive(col) == [i \in 1..Len(col) |-> SumSeq(SubSeq(col, 1, i - 1))]

\* Series.cumsum(): element i is the sum of the first i elements
cumsum(col) == [i \in 1..Len(col) |-> SumSeq(SubSeq(col, 1, i))]

\* a column assignment that also replaces missing elevations by 0
WithColumn_fill(df, name, col) ==
    [i \in 1..Len(df) |->
        [k \in (DOMAIN df[i]) \cup {name} |->
            IF k = name THEN col[i]
            ELSE IF k = "elevation" /\ IsNa(df[i][k]) THEN Some(0) ELSE df[i][k]]]

\* track_data[name] = col: every row gets the new field, the others stay
WithColumn(df, name, col) ==
    [i \in 1..Len(df) |->
        [k \in (DOMAIN df[i]) \cup {name} |-> IF k = name THEN col[i] ELSE df[i][k]]]

\* a column of None only keeps dtype object; otherwise None becomes NaN in float64
dtype(col) == IF \A i \in 1..Len(col) : IsNa(col[i]) THEN "object" ELSE "float64"

Present(col) == {Val(col[i]) : i \in {j \in 1..Len(col) : ~IsNa(col[j])}}

\* a maximum that reports 0 when no value is present
SeriesMax_zero(col) ==
    IF Present(col) = {} THEN Some(0)
    ELSE Some(CHOOSE m \in Present(col) : \A v \in Present(col) : v <= m)

\* Series.max(): missing values are skipped; NaN when nothing is left
SeriesMax(col) ==
    IF Present(col) = {} THEN NaN
    ELSE Some(CHOOSE m \in Present(col) : \A v \in Present(col) : v <= m)

\* a minimum that counts a missing value as 0
SeriesMin_zero(col) ==
    LET all == {IF IsNa(col[i]) THEN 0 ELSE Val(col[i]) : i \in 1..Len(col)}
    IN  IF all = {} THEN NaN ELSE Some(CHOOSE m \in all : \A v \in all : m <= v)

\* Series.min(): missing values are skipped; NaN when nothing is left
SeriesMin(col) ==
    IF Present(col) = {} THEN NaN
    ELSE Some(CHOOSE m \in Present(col) : \A v \in Present(col) : m <= v)

\* Series.diff() on an object column subtracts None from None: TypeError
DiffRaises(col) == dtype(col) = "object" /\ Len(col) >= 2

\* a difference taken after filling each gap with the previous present value
RECURSIVE ffill(_)
ffill(col) ==
    IF Len(col) <= 1 THEN col
    ELSE LET f == ffill(SubSeq(col, 1, Len(col) - 1))
         IN  Append(f, IF IsNa(col[Len(col)]) THEN f[Len(f)] ELSE col[Len(col)])

diff_ffill(col) ==
    [i \in 1..Len(col) |->
        IF i = 1 \/ IsNa(ffill(col)[i]) \/ IsNa(ffill(col)[i - 1]) THEN NaN
        ELSE Some(Val(ffill(col)[i]) - Val(ffill(col)[i - 1]))]

\* Series.diff(): NaN first, then col[i] - col[i-1], NaN when either is missing
diff(col) ==
    [i \in 1..Len(col) |->
        IF i = 1 \/ IsNa(col[i]) \/ IsNa(col[i - 1]) THEN NaN
        ELSE Some(Val(col[i]) - Val(col[i - 1]))]

\* Series.fillna(v): every missing value becomes v
fillna(col, v) == [i \in 1..Len(col) |-> IF IsNa(col[i]) THEN Some(v) ELSE col[i]]

\* Series.clip(lower=lo): values below lo become lo, missing values stay
clip(col, lo) ==
    [i \in 1..Len(col) |-> IF ~IsNa(col[i]) /\ Val(col[i]) < lo THEN Some(lo) ELSE col[i]]

\* Series.sum(): missing values are skipped
SeriesSum(col) == SumSeq([i \in 1..Len(col) |-> IF IsNa(col[i]) THEN 0 ELSE Val(col[i])])

max(a, b) == IF b > a THEN b ELSE a

calculate_metrics ==
    /\ pc = "calc"
    /\ LET df == Val(track_data)
           coords == zip(Column(df, "latitude"), Column(df, "longitude"))
           d == StepDistances(coords)
           df1 == WithColumn(df, "distance", <<0>> \o d)
           df2 == WithColumn(df1, "cumulative_distance", cumsum(Column(df1, "distance")))
           ele == Column(df2, "elevation")
       IN  /\ distances' = d
           /\ total_distance' = SumSeq(d)
           /\ track_data' = Some(df2)
           /\ max_elevation' = SeriesMax(ele)
           /\ min_elevation' = SeriesMin(ele)
           /\ IF DiffRaises(ele)
              THEN /\ Uncaught("TypeError")
                   /\ attrs' = attrs \cup {"max_elevation", "min_elevation"}
                   /\ UNCHANGED elevation_gain
              ELSE /\ elevation_gain' = Some(max(0, SeriesSum(clip(fillna(diff(ele), 0), 0))))
                   /\ attrs' = attrs \cup {"max_elevation", "min_elevation", "elevation_gain"}
                   /\ pc' = "print"
                   /\ UNCHANGED <<exit_status, raised>>
    /\ UNCHANGED <<entry, file, gpx, stdout, outputs>>

\* ------------------------------------------- run_analysis: the summary
print_summary ==
    /\ pc = "print"
    /\ stdout' = stdout \o << <<"total_distance", Some(total_distance)>>,
                              <<"max_elevation", max_elevation>>,
                              <<"min_elevation", min_elevation>>,
                              <<"elevation_gain", elevation_gain>> >>
    /\ pc' = "map"
    /\ UNCHANGED <<entry, file, analyzer, raised, exit_status, outputs>>

\* ----------------------------------------------- visualize_track_on_map
visualize_track_on_map ==
    /\ pc = "map"
    /\ \E saved \in BOOLEAN :
          IF saved
          THEN /\ map_saved' = TRUE
               /\ print("map_saved", NaN)
               /\ browser_opened' = TRUE
               /\ pc' = "plot"
               /\ UNCHANGED <<exit_status, raised>>
          ELSE /\ Uncaught("OSError")
               /\ UNCHANGED <<map_saved, browser_opened, stdout>>
    /\ UNCHANGED <<entry, file, analyzer, chart_shown>>

\* ----------------------------------------------- plot_elevation_profile
plot_elevation_profile ==
    /\ pc = "plot"
    /\ \E shown \in BOOLEAN :
          IF shown
          THEN /\ chart_shown' = TRUE
               /\ pc' = "done"
               /\ exit_status' = Some(0)
               /\ UNCHANGED raised
          ELSE /\ Uncaught("RuntimeError")
               /\ UNCHANGED chart_shown
    /\ UNCHANGED <<entry, file, analyzer, stdout, map_saved, browser_opened>>

\* ---------------------------------------------------------------- system
Next ==
    \/ main
    \/ load_gpx_file
    \/ extract_track_data
    \/ calculate_metrics
    \/ print_summary
    \/ visualize_track_on_map
    \/ plot_elevation_profile

Spec == Init /\ [][Next]_vars

\* ---------------------------------------- calculate_metrics on its own
\* the tracks calculate_metrics is given: one to MaxPoints points
Tracks == UNION {[1..n -> TrackPoints] : n \in 1..MaxPoints}

\* the analyzer after load_gpx_file and extract_track_data have read a file
\* whose single track has a single segment
InitMetrics ==
    /\ entry = "main"
    /\ \E pts \in Tracks : file = [kind |-> "gpx", tracks |-> << <<pts>> >>]
    /\ pc = "calc"
    /\ gpx = Some(file.tracks)
    /\ track_data = Some(DataFrame(points(file.tracks)))
    /\ distances = <<>>
    /\ total_distance = 0
    /\ max_elevation = NaN
    /\ min_elevation = NaN
    /\ elevation_gain = NaN
    /\ attrs = {}
    /\ stdout = <<>>
    /\ raised = "none"
    /\ exit_status = NaN
    /\ map_saved = FALSE
    /\ browser_opened = FALSE
    /\ chart_shown = FALSE

NextMetrics == calculate_metrics

SpecMetrics == InitMetrics /\ [][NextMetrics]_vars

\* ------------------------------------------------------------ properties
Terminal == {"done", "exited", "aborted"}

AfterMetrics == {"print", "map", "plot", "done"}

SummaryPrinted == \E i \in 1..Len(stdout) : stdout[i][1] = "total_distance"

Track == Val(track_data)

TrackElevations == Column(Track, "elevation")

\* calculate_metrics has been called on a non-empty track (it returned or raised)
MetricsCalled == "max_elevation" \in attrs

\* calculate_metrics has returned
MetricsDone == "elevation_gain" \in attrs

\* C1: a run either completes with the summary, the map and the chart all
\* produced, or ends early with none of them produced
C1_NoPartialSuccess ==
    /\ pc = "done" => SummaryPrinted /\ map_saved /\ chart_shown
    /\ pc \in {"exited", "aborted"} => ~SummaryPrinted /\ ~map_saved /\ ~chart_shown

\* the sum over consecutive pairs with both elevations present of max(0, rise)
RECURSIVE PairGain(_)
PairGain(e) ==
    IF Len(e) < 2 THEN 0
    ELSE LET n == Len(e)
             step == IF IsNa(e[n]) \/ IsNa(e[n - 1]) THEN 0
                     ELSE IF Val(e[n]) > Val(e[n - 1]) THEN Val(e[n]) - Val(e[n - 1]) ELSE 0
         IN  PairGain(SubSeq(e, 1, n - 1)) + step

OriginalFields == {"latitude", "longitude", "elevation", "time"}

\* C3 as stated: calculate_metrics leaves track_data exactly as it was
C3_TrackUnchanged == [][pc = "calc" => track_data' = track_data]_vars

\* C3 amended: calculate_metrics keeps the points, their order and their four
\* original fields, and adds the columns distance and cumulative_distance
C3_OriginalFieldsKept ==
    [][pc = "calc" =>
        /\ Len(Val(track_data')) = Len(Val(track_data))
        /\ \A i \in 1..Len(Val(track_data)) :
              /\ \A k \in OriginalFields : Val(track_data')[i][k] = Val(track_data)[i][k]
              /\ DOMAIN Val(track_data)[i] = OriginalFields
              /\ DOMAIN Val(track_data')[i] =
                     OriginalFields \cup {"distance", "cumulative_distance"}]_vars

C3_Witness ==
    /\ MetricsCalled
    /\ Len(Track) = 3
    /\ \E i \in 1..3 : IsNa(Track[i].elevation)
    /\ DOMAIN Track[1] = OriginalFields \cup {"distance", "cumulative_distance"}

LoadFailure ==
    \/ file.kind \in {"missing", "malformed"}
    \/ file.kind = "gpx" /\ (file.tracks = <<>> \/ points(file.tracks) = <<>>)

\* C4: a missing file, a malformed file and a file without tracks or without
\* points all end the run with a printed message and exit status 1, and the
\* metrics are never computed
C4_LoadFailuresReported ==
    LoadFailure =>
        /\ pc \notin {"calc"} \cup AfterMetrics
        /\ pc \in Terminal =>
              /\ pc = "exited"
              /\ Len(stdout) >= 1
              /\ exit_status = Some(1)
              /\ raised = "none"

AllMissing(e) == \A i \in 1..Len(e) : IsNa(e[i])

\* C5: on a non-empty track without any elevation calculate_metrics returns
\* with both extrema unset and gain 0
C5_AllMissingNoCrash ==
    (track_data # NaN /\ Len(Track) >= 1 /\ AllMissing(TrackElevations) /\ pc # "calc") =>
        /\ MetricsDone
        /\ raised # "TypeError"
        /\ max_elevation = NaN
        /\ min_elevation = NaN
        /\ elevation_gain = Some(0)

\* C6: n-1 step distances; the cumulative distances have length n, start at 0,
\* each adds the previous step, never decrease, and end at total_distance,
\* which is the sum of the steps
C6_CumulativeDistances ==
    MetricsCalled =>
        LET n == Len(Track)
            cum == Column(Track, "cumulative_distance")
        IN  /\ n >= 1
            /\ Len(distances) = n - 1
            /\ Len(cum) = n
            /\ cum[1] = 0
            /\ \A i \in 2..n : cum[i] = cum[i - 1] + distances[i - 1]
            /\ \A i \in 2..n : cum[i - 1] <= cum[i]
            /\ cum[n] = total_distance
            /\ total_distance = SumSeq(distances)

C6_Witness ==
    /\ MetricsCalled
    /\ distances = <<1, 1>>
    /\ Column(Track, "cumulative_distance") = <<0, 1, 2>>
    /\ total_distance = 2

\* C7: with no file at the path the run ends with exit status 1 and writes no
\* map, prints no summary and shows no chart, from either entry
C7_MissingFileNoArtifacts ==
    file.kind = "missing" =>
        /\ ~map_saved /\ ~browser_opened /\ ~chart_shown /\ ~SummaryPrinted
        /\ pc \in {"main", "load", "exited"}
        /\ pc = "exited" => exit_status = Some(1)

C7_Witness ==
    /\ file.kind = "missing"
    /\ entry = "direct"
    /\ pc = "exited"
    /\ stdout = << <<"file_not_found", NaN>> >>

\* C8: a single point gives distance 0, gain 0, no step, cumulative <<0>>, and
\* both extrema equal to its elevation, unset when it has none
C8_SinglePoint ==
    (track_data # NaN /\ Len(Track) = 1 /\ pc # "calc") =>
        /\ MetricsDone
        /\ raised # "TypeError"
        /\ total_distance = 0
        /\ elevation_gain = Some(0)
        /\ distances = <<>>
        /\ Column(Track, "cumulative_distance") = <<0>>
        /\ max_elevation = Track[1].elevation
        /\ min_elevation = Track[1].elevation

C8_Witness ==
    /\ track_data # NaN
    /\ pc = "print"
    /\ Len(Track) = 1
    /\ IsNa(Track[1].elevation)
    /\ max_elevation = NaN

\* C9: the metrics, the summary, the map and the chart are reached only after
\* both load steps, and only with at least one point
C9_TrackNonEmptyWhenUsed ==
    (pc \in {"calc"} \cup AfterMetrics \/ MetricsCalled \/ SummaryPrinted \/ map_saved \/ chart_shown) =>
        /\ gpx # NaN
        /\ track_data # NaN
        /\ Len(Track) >= 1
        /\ file.kind = "gpx"
        /\ Len(points(file.tracks)) >= 1

C9_Witness ==
    /\ pc = "done"
    /\ Len(file.tracks) = 1
    /\ Len(Track) = 1
    /\ SummaryPrinted /\ map_saved /\ chart_shown

\* C10: when some point has an elevation, both extrema are elevations of
\* points of the track and bound every present elevation
C10_Extrema ==
    (MetricsCalled /\ ~AllMissing(TrackElevations)) =>
        /\ ~IsNa(max_elevation)
        /\ ~IsNa(min_elevation)
        /\ \E i \in 1..Len(Track) : TrackElevations[i] = max_elevation
        /\ \E i \in 1..Len(Track) : TrackElevations[i] = min_elevation
        /\ \A i \in 1..Len(Track) :
              ~IsNa(TrackElevations[i]) =>
                  /\ Val(min_elevation) <= Val(TrackElevations[i])
                  /\ Val(TrackElevations[i]) <= Val(max_elevation)

C10_Witness ==
    /\ MetricsCalled
    /\ TrackElevations = <<Some(1), NaN, Some(0)>>
    /\ max_elevation = Some(1)
    /\ min_elevation = Some(0)

====
